---- MODULE Spec2Model ----
(***************************************************************************)
(* Model of the linkura string-translation tool: the Japanese-text         *)
(* extractor and todo generator (src/src/gentodo/__init__.py), the         *)
(* translation-record merger (src/src/generate/__init__.py) and the        *)
(* command wrappers of src/main.py.                                        *)
(*                                                                         *)
(* A Python str is a sequence of code points (naturals).  A JSON value is  *)
(* a node [t, s, kids]: t is "str", "num" (any scalar that is no string),  *)
(* "list" or "dict"; s is the text of a "str" node; kids are the children  *)
(* in document order, each [k |-> key, v |-> node] (k is "" in a list).    *)
(***************************************************************************)
EXTENDS Integers, Sequences, FiniteSets, TLC

VARIABLES
    doc,      \* extractor: the JSON-decoded value handed to extract_japanese_texts
    texts,    \* extractor: [done, all, unique] - the returned list and gen's de-duplication
    dataDir,  \* whether the tracking directory "data" exists
    store,    \* the store file data/stringliteral.json: [kind, recs]
    last,     \* the last command run: its inputs, its results, the store before it
    disk,     \* the other JSON files: [rawExists, raw, data] - RAW_DIR and the rest of "data"
    readme,   \* the status document README.md: [exists, lines]
    run       \* the record of an analyze, generate or translate command

vars == <<doc, texts, dataDir, store, last, disk, readme, run>>

\* ------------------------------------------------------------ bounds
MaxLeafLen == 6     \* longest string leaf of SpecLeaf
MaxDepth == 2       \* deepest nesting of the documents of SpecExtract
MaxWidth == 2       \* most elements of a sequence in the documents of SpecExtract
MaxArrayLen == 2    \* longest raw / translation array handed to the merger
MaxFiles == 2       \* most files of a directory the analyzer lists
MaxWrites == 3      \* most badge refreshes of one status document

\* ------------------------------------------------------------ text helpers
Backslash == 92
LowerU == 117
EscapeDigits == 4

\* int(c, 16) for one character; -1 when c is not in [0-9a-fA-F]
HexVal(c) ==
    IF c >= 48 /\ c <= 57 THEN c - 48
    ELSE IF c >= 65 /\ c <= 70 THEN c - 55
    ELSE IF c >= 97 /\ c <= 102 THEN c - 87
    ELSE -1

\* does the pattern \\u([0-9a-fA-F]{4}) match text at position i
EscapeAt(text, i) ==
    /\ i + 1 + EscapeDigits <= Len(text)
    /\ text[i] = Backslash
    /\ text[i + 1] = LowerU
    /\ \A j \in 1..EscapeDigits : HexVal(text[i + 1 + j]) >= 0

RECURSIVE HexNumber(_, _, _)
\* int(match.group(1), 16): the value of the n hex digits that start at position i
HexNumber(text, i, n) ==
    IF n = 0 THEN 0
    ELSE 16 * HexNumber(text, i, n - 1) + HexVal(text[i + n - 1])

\* replace_unicode: chr(code) of the matched escape (four hex digits always decode)
replace_unicode(text, i) == HexNumber(text, i + 2, EscapeDigits)

RECURSIVE DecodeFrom(_, _)
\* re.sub: leftmost non-overlapping matches, scanned from position i
DecodeFrom(text, i) ==
    IF i > Len(text) THEN <<>>
    ELSE IF EscapeAt(text, i)
         THEN <<replace_unicode(text, i)>> \o DecodeFrom(text, i + 2 + EscapeDigits)
         ELSE <<text[i]>> \o DecodeFrom(text, i + 1)

decode_unicode_escapes(text) == DecodeFrom(text, 1)

\* str.isspace of one code point (the characters str.strip() removes)
IsSpace(c) ==
    \/ c \in {9, 10, 11, 12, 13, 28, 29, 30, 31, 32, 133, 160, 5760}
    \/ c >= 8192 /\ c <= 8202
    \/ c \in {8232, 8233, 8239, 8287, 12288}

\* truth value of text.strip()
NonBlank(text) == \E i \in 1..Len(text) : ~IsSpace(text[i])

\* mutant of japanese_ranges: the Hiragana range left out
japanese_ranges_no_hiragana ==
    { <<12448, 12543>>, <<19968, 40879>>, <<65280, 65519>> }

\* japanese_ranges as (start, end) pairs
japanese_ranges ==
    { <<12352, 12447>>,    \* 0x3040-0x309F Hiragana
      <<12448, 12543>>,    \* 0x30A0-0x30FF Katakana
      <<19968, 40879>>,    \* 0x4E00-0x9FAF CJK Unified Ideographs
      <<65280, 65519>> }   \* 0xFF00-0xFFEF Halfwidth/Fullwidth Forms

JapaneseChar(c) == \E r \in japanese_ranges : r[1] <= c /\ c <= r[2]

is_japanese_text(text) ==
    /\ Len(text) > 0
    /\ \E i \in 1..Len(text) : JapaneseChar(text[i])

\* ------------------------------------------------------------ extractor
StrNode(s) == [t |-> "str", s |-> s, kids |-> <<>>]
NumNode == [t |-> "num", s |-> <<>>, kids |-> <<>>]
ListNode(items) ==
    [t |-> "list", s |-> <<>>,
     kids |-> [i \in 1..Len(items) |-> [k |-> "", v |-> items[i]]]]
DictNode(fields) == [t |-> "dict", s |-> <<>>, kids |-> fields]

\* the string branches of process_item: decode, test, append
TestString(text, acc) ==
    IF NonBlank(text) /\ is_japanese_text(decode_unicode_escapes(text))
    THEN Append(acc, decode_unicode_escapes(text))
    ELSE acc

\* item['value'] of a dict node, when the key is present
HasValueField(item) == \E i \in 1..Len(item.kids) : item.kids[i].k = "value"
ValueField(item) ==
    item.kids[CHOOSE i \in 1..Len(item.kids) : item.kids[i].k = "value"].v

RECURSIVE process_item(_, _)
RECURSIVE ProcessKids(_, _, _)
\* process_item(item) with japanese_texts = acc; returns the list afterwards
process_item(item, acc) ==
    IF item.t = "dict"
    THEN LET first == IF HasValueField(item) /\ ValueField(item).t = "str"
                      THEN TestString(ValueField(item).s, acc)
                      ELSE acc
         IN ProcessKids(item.kids, 1, first)
    ELSE IF item.t = "list" THEN ProcessKids(item.kids, 1, acc)
    ELSE IF item.t = "str" THEN TestString(item.s, acc)
    ELSE acc

\* the loops "for value in item.values()" and "for element in item"
ProcessKids(kids, i, acc) ==
    IF i > Len(kids) THEN acc
    ELSE ProcessKids(kids, i + 1, process_item(kids[i].v, acc))

extract_japanese_texts(data) == process_item(data, <<>>)

RECURSIVE Dedup(_, _)
\* list(dict.fromkeys(xs)): first occurrences, in order (seen = those kept so far)
Dedup(xs, seen) ==
    IF xs = <<>> THEN <<>>
    ELSE IF \E i \in 1..Len(seen) : seen[i] = Head(xs)
         THEN Dedup(Tail(xs), seen)
         ELSE <<Head(xs)>> \o Dedup(Tail(xs), Append(seen, Head(xs)))

unique_texts(japanese) == Dedup(japanese, <<>>)

\* ------------------------------------------------------------ store file
\* A file holding JSON is [kind, recs]: kind is "absent", "corrupt" (malformed
\* JSON), "object" (well-formed JSON that is no array) or "list"; recs are the
\* array's entries.  An entry is [kind, raw, translation]: kind "record" is
\* {raw, translation}, "bare" a dict with raw and no translation key, "flat" a
\* legacy flat string.  translation is the dict's items in insertion order.
Absent == [kind |-> "absent", recs |-> <<>>]
Corrupt == [kind |-> "corrupt", recs |-> <<>>]
JsonObject == [kind |-> "object", recs |-> <<>>]
ListFile(recs) == [kind |-> "list", recs |-> recs]

Entry(locale, text, author) == [locale |-> locale, text |-> text, author |-> author]
Record(raw, translation) == [kind |-> "record", raw |-> raw, translation |-> translation]
Bare(raw) == [kind |-> "bare", raw |-> raw, translation |-> <<>>]
Flat(raw) == [kind |-> "flat", raw |-> raw, translation |-> <<>>]

\* isinstance(entry, dict) and 'raw' in entry
IsRecord(e) == e.kind \in {"record", "bare"}

\* existing_data as merge_translations loads it (lines 44-53)
LoadTarget(file) == IF file.kind = "list" THEN file.recs ELSE <<>>

\* raw_text in existing_map
InMap(data, raw) == \E i \in 1..Len(data) : IsRecord(data[i]) /\ data[i].raw = raw

\* existing_map[raw_text]: the entry object the map holds for raw, as its index
\* in existing_data (the map is filled in list order, so the last one wins)
MapIndex(data, raw) ==
    CHOOSE i \in 1..Len(data) :
        /\ IsRecord(data[i]) /\ data[i].raw = raw
        /\ \A j \in (i + 1)..Len(data) : ~(IsRecord(data[j]) /\ data[j].raw = raw)

\* mutant of SetLocale: the new entry is added without replacing the old one
SetLocaleAppend(translation, locale, text, author) ==
    Append(translation, [locale |-> locale, text |-> text, author |-> author])

\* mutant of SetLocale: the translation dict is rebuilt with the one locale
SetLocaleOnly(translation, locale, text, author) ==
    <<[locale |-> locale, text |-> text, author |-> author]>>

\* entry['translation'][locale] = {...}: an existing key keeps its place in
\* the dict, a new key goes last
SetLocale(translation, locale, text, author) ==
    IF \E i \in 1..Len(translation) : translation[i].locale = locale
    THEN [i \in 1..Len(translation) |->
            IF translation[i].locale = locale
            THEN Entry(locale, text, author)
            ELSE translation[i]]
    ELSE Append(translation, Entry(locale, text, author))

\* mutant of MergeStep: a new entry is put in front of existing_data
MergeStepPrepend(st, raw_text, translation, locale, author) ==
    IF InMap(st.data, raw_text)
    THEN LET i == MapIndex(st.data, raw_text)
         IN [data |-> [st.data EXCEPT ![i].translation =
                          SetLocale(@, locale, translation, author),
                       ![i].kind = "record"],
             added |-> st.added, updated |-> st.updated + 1]
    ELSE [data |-> <<Record(raw_text, <<Entry(locale, translation, author)>>)>> \o st.data,
          added |-> st.added + 1, updated |-> st.updated]

\* mutant of MergeStep: an update of a record is not counted
MergeStepUncounted(st, raw_text, translation, locale, author) ==
    IF InMap(st.data, raw_text)
    THEN LET i == MapIndex(st.data, raw_text)
         IN [data |-> [st.data EXCEPT ![i].translation =
                          SetLocale(@, locale, translation, author),
                       ![i].kind = "record"],
             added |-> st.added, updated |-> st.updated]
    ELSE [data |-> Append(st.data, Record(raw_text, <<Entry(locale, translation, author)>>)),
          added |-> st.added + 1, updated |-> st.updated]

\* one turn of the loop of lines 65-93 on the state [data, added, updated]
MergeStep(st, raw_text, translation, locale, author) ==
    IF InMap(st.data, raw_text)
    THEN LET i == MapIndex(st.data, raw_text)
             entry == st.data[i]
         IN [data |-> [st.data EXCEPT ![i] =
                          Record(entry.raw,
                                 SetLocale(entry.translation, locale, translation, author))],
             added |-> st.added,
             updated |-> st.updated + 1]
    ELSE [data |-> Append(st.data,
                          Record(raw_text, <<Entry(locale, translation, author)>>)),
          added |-> st.added + 1,
          updated |-> st.updated]

RECURSIVE MergeLoop(_, _, _, _, _, _)
\* for i, raw_text in enumerate(raw_texts), from Python index i - 1 on
MergeLoop(st, raw_texts, translations, locale, author, i) ==
    IF i > Len(raw_texts) THEN st
    ELSE MergeLoop(
            MergeStep(st, raw_texts[i],
                      IF i <= Len(translations) THEN translations[i] ELSE "",
                      locale, author),
            raw_texts, translations, locale, author, i + 1)

\* mutant of merge_translations: a length mismatch is an error
merge_translations_strict(raw_file, trans_file, target, dir, locale, author) ==
    IF \/ raw_file.kind # "list" \/ trans_file.kind # "list"
       \/ Len(raw_file.recs) # Len(trans_file.recs)
    THEN [ret |-> 1, store |-> target, dataDir |-> dir,
          added |-> 0, updated |-> 0, total |-> 0]
    ELSE LET st == MergeLoop([data |-> LoadTarget(target), added |-> 0, updated |-> 0],
                             raw_file.recs, trans_file.recs, locale, author, 1)
         IN [ret |-> 0, store |-> ListFile(st.data), dataDir |-> TRUE,
             added |-> st.added, updated |-> st.updated, total |-> Len(st.data)]

\* mutant of merge_translations: the target is written before the translation
\* file is checked
merge_translations_early_write(raw_file, trans_file, target, dir, locale, author) ==
    IF raw_file.kind # "list"
    THEN [ret |-> 1, store |-> target, dataDir |-> dir,
          added |-> 0, updated |-> 0, total |-> 0]
    ELSE LET st == MergeLoop([data |-> LoadTarget(target), added |-> 0, updated |-> 0],
                             raw_file.recs, trans_file.recs, locale, author, 1)
         IN [ret |-> IF trans_file.kind = "list" THEN 0 ELSE 1,
             store |-> ListFile(st.data), dataDir |-> TRUE,
             added |-> st.added, updated |-> st.updated, total |-> Len(st.data)]

\* merge_translations: [ret, store, dataDir, added, updated, total]
merge_translations(raw_file, trans_file, target, dir, locale, author) ==
    IF raw_file.kind # "list" \/ trans_file.kind # "list"
    THEN [ret |-> 1, store |-> target, dataDir |-> dir,
          added |-> 0, updated |-> 0, total |-> 0]
    ELSE LET st == MergeLoop([data |-> LoadTarget(target), added |-> 0, updated |-> 0],
                             raw_file.recs, trans_file.recs, locale, author, 1)
         IN [ret |-> 0, store |-> ListFile(st.data), dataDir |-> TRUE,
             added |-> st.added, updated |-> st.updated, total |-> Len(st.data)]

\* ------------------------------------------------------------ todo generator
\* existing_text_strings of _update_output_dir_file, as a membership test
Known(existing, text) ==
    \E i \in 1..Len(existing) : existing[i].raw = text

RECURSIVE NewObjectsLegacyUnknown(_, _)
\* mutant of NewObjects: a legacy flat string does not count as known
NewObjectsLegacyUnknown(existing, new_texts) ==
    IF new_texts = <<>> THEN <<>>
    ELSE IF \E i \in 1..Len(existing) :
               existing[i].kind # "flat" /\ existing[i].raw = Head(new_texts)
         THEN NewObjectsLegacyUnknown(existing, Tail(new_texts))
         ELSE <<Record(Head(new_texts), <<>>)>>
                  \o NewObjectsLegacyUnknown(existing, Tail(new_texts))

RECURSIVE NewObjects(_, _)
\* [{raw: text, translation: {}} for text in new_texts if text not in existing_set]
NewObjects(existing, new_texts) ==
    IF new_texts = <<>> THEN <<>>
    ELSE IF Known(existing, Head(new_texts))
         THEN NewObjects(existing, Tail(new_texts))
         ELSE <<Record(Head(new_texts), <<>>)>> \o NewObjects(existing, Tail(new_texts))

\* mutant of _update_output_dir_file: a corrupt tracking file is left as it is
_update_output_dir_file_no_recovery(file, new_texts) ==
    IF file.kind = "corrupt" THEN file
    ELSE LET existing_texts == IF file.kind = "list" THEN file.recs ELSE <<>>
         IN IF NewObjects(existing_texts, new_texts) # <<>>
            THEN ListFile(existing_texts \o NewObjects(existing_texts, new_texts))
            ELSE file

\* mutant of _update_output_dir_file: every new text is appended, known or not
_update_output_dir_file_unfiltered(file, new_texts) ==
    IF new_texts = <<>> THEN file
    ELSE ListFile((IF file.kind = "list" THEN file.recs ELSE <<>>)
                      \o NewObjects(<<>>, new_texts))

\* _update_output_dir_file: the tracking file afterwards
_update_output_dir_file(file, new_texts) ==
    IF file.kind = "corrupt"
    THEN ListFile(NewObjects(<<>>, new_texts))
    ELSE LET existing_texts == IF file.kind = "list" THEN file.recs ELSE <<>>
             new_objects == NewObjects(existing_texts, new_texts)
         IN IF new_objects # <<>>
            THEN ListFile(existing_texts \o new_objects)
            ELSE file

\* gen: [ret, store, unique].  input is [kind, doc] with kind "missing",
\* "directory", "malformed" or "json"; outDir says whether output_dir exists
gen(input, outDir, dir, file) ==
    IF input.kind # "json" \/ ~outDir
    THEN [ret |-> 1, store |-> file, unique |-> <<>>]
    ELSE LET unique == unique_texts(extract_japanese_texts(input.doc))
         IN [ret |-> 0,
             store |-> IF dir THEN _update_output_dir_file(file, unique) ELSE file,
             unique |-> unique]

\* command_gentodo: the exit code, given what gen returned
command_gentodo(gen_ret) == 0

\* ------------------------------------------------------------ progress analyzer
\* A file of a directory is [json, kind, recs]: json says whether its name ends
\* with ".json", kind and recs are those of a store file.
DirFile(json, file) == [json |-> json, kind |-> file.kind, recs |-> file.recs]

\* load_json_as_sets: [raised, set]; json.load or the isinstance test raises
load_json_as_sets(file) ==
    IF file.kind # "list"
    THEN [raised |-> TRUE, set |-> {}]
    ELSE [raised |-> FALSE, set |-> {file.recs[i].raw : i \in 1..Len(file.recs)}]

\* mutant of load_locale_count: an entry with an empty text counts as translated
RECURSIVE CountFromAnyText(_, _, _)
CountFromAnyText(recs, locale, i) ==
    IF i > Len(recs) THEN 0
    ELSE (IF \E k \in 1..Len(recs[i].translation) : recs[i].translation[k].locale = locale
          THEN 1 ELSE 0) + CountFromAnyText(recs, locale, i + 1)
load_locale_count_any_text(file, locale) ==
    IF file.kind # "list" \/ \E i \in 1..Len(file.recs) : file.recs[i].kind = "bare"
    THEN [raised |-> TRUE, count |-> 0]
    ELSE [raised |-> FALSE, count |-> CountFromAnyText(file.recs, locale, 1)]

RECURSIVE CountFrom(_, _, _)
\* the loop of load_locale_count from item i on: -1 when item["translation"]
\* raises KeyError, else the count of items with a non-empty text for locale
CountFrom(recs, locale, i) ==
    IF i > Len(recs) THEN 0
    ELSE IF recs[i].kind = "flat" THEN CountFrom(recs, locale, i + 1)
    ELSE IF recs[i].kind = "bare" THEN -1
    ELSE LET rest == CountFrom(recs, locale, i + 1)
             hit == \E k \in 1..Len(recs[i].translation) :
                        /\ recs[i].translation[k].locale = locale
                        /\ recs[i].translation[k].text # ""
         IN IF rest < 0 THEN -1 ELSE rest + (IF hit THEN 1 ELSE 0)

\* load_locale_count: [raised, count]
load_locale_count(file, locale) ==
    IF file.kind # "list" \/ CountFrom(file.recs, locale, 1) < 0
    THEN [raised |-> TRUE, count |-> 0]
    ELSE [raised |-> FALSE, count |-> CountFrom(file.recs, locale, 1)]

RECURSIVE ScanRaw(_, _, _)
\* the loop over os.listdir(raw_dir): [raised, set] with raw_strings = acc
ScanRaw(files, i, acc) ==
    IF i > Len(files) THEN [raised |-> FALSE, set |-> acc]
    ELSE IF ~files[i].json THEN ScanRaw(files, i + 1, acc)
    ELSE IF load_json_as_sets(files[i]).raised THEN [raised |-> TRUE, set |-> acc]
    ELSE ScanRaw(files, i + 1, acc \cup load_json_as_sets(files[i]).set)

RECURSIVE ScanOutput(_, _, _, _, _)
\* the loop over os.listdir(output_dir): [raised, set, count]
ScanOutput(files, locale, i, acc, n) ==
    IF i > Len(files) THEN [raised |-> FALSE, set |-> acc, count |-> n]
    ELSE IF ~files[i].json THEN ScanOutput(files, locale, i + 1, acc, n)
    ELSE IF load_json_as_sets(files[i]).raised \/ load_locale_count(files[i], locale).raised
         THEN [raised |-> TRUE, set |-> acc, count |-> n]
    ELSE ScanOutput(files, locale, i + 1,
                    acc \cup load_json_as_sets(files[i]).set,
                    n + load_locale_count(files[i], locale).count)

\* analyze_translation_progress: [raised, total, translated]; raw and output
\* are the directories as [exists, files]
analyze_translation_progress(raw, output, locale) ==
    LET failed == [raised |-> TRUE, total |-> 0, translated |-> 0]
    IN IF ~raw.exists \/ ~output.exists THEN failed
       ELSE LET r == ScanRaw(raw.files, 1, {})
                o == ScanOutput(output.files, locale, 1, r.set, 0)
            IN IF r.raised \/ o.raised THEN failed
               ELSE [raised |-> FALSE,
                     total |-> Cardinality(o.set),
                     translated |-> o.count]

\* os.listdir of RAW_DIR and of the directory "data" (the store is one of its files)
RawListing(d) == [exists |-> d.rawExists, files |-> d.raw]
OutputListing(dir, file, d) ==
    [exists |-> dir,
     files |-> (IF file.kind = "absent" THEN <<>> ELSE <<DirFile(TRUE, file)>>) \o d.data]

\* ------------------------------------------------------------ status document
\* A text is the sequence of its characters; the status document is the
\* sequence of its lines, each with its line end, as readlines returns them.
\* "![translation "
BadgeAlt ==
    <<"!", "[", "t", "r", "a", "n", "s", "l", "a", "t", "i", "o", "n", " ">>
\* "](https://img.shields.io/badge/"
BadgeHost ==
    <<"]", "(", "h", "t", "t", "p", "s", ":", "/", "/", "i", "m", "g", ".", "s", "h", "i",
     "e", "l", "d", "s", ".", "i", "o", "/", "b", "a", "d", "g", "e", "/">>
\* "translation_"
BadgeMarker ==
    <<"t", "r", "a", "n", "s", "l", "a", "t", "i", "o", "n", "_">>
\* "%2F"
BadgeSlash ==
    <<"%", "2", "F">>
\* "-blue)"
BadgeColour ==
    <<"-", "b", "l", "u", "e", ")">>
\* "## translation progress"
SectionHeading ==
    <<"#", "#", " ", "t", "r", "a", "n", "s", "l", "a", "t", "i", "o", "n", " ", "p", "r",
     "o", "g", "r", "e", "s", "s">>
\* "# translation", the first line of the default document
TitleLine ==
    <<"#", " ", "t", "r", "a", "n", "s", "l", "a", "t", "i", "o", "n", "\n">>
\* "---"
RuleText ==
    <<"-", "-", "-">>
\* the letters str.lower changes
UpperCase ==
    <<"A", "B", "C", "D", "E", "F", "G", "H", "I", "J", "K", "L", "M", "N", "O", "P", "Q",
     "R", "S", "T", "U", "V", "W", "X", "Y", "Z">>
\* and what it changes them to
LowerCase ==
    <<"a", "b", "c", "d", "e", "f", "g", "h", "i", "j", "k", "l", "m", "n", "o", "p", "q",
     "r", "s", "t", "u", "v", "w", "x", "y", "z">>
\* the decimal digits
DigitChars ==
    <<"0", "1", "2", "3", "4", "5", "6", "7", "8", "9">>
Newline == <<"\n">>
BlankLine == Newline
RuleLine == RuleText \o Newline
HeadingLine == SectionHeading \o Newline

RECURSIVE Decimal(_)
\* str(n) of a natural number, as the f-string formats it
Decimal(n) == IF n < 10 THEN <<DigitChars[n + 1]>>
              ELSE Decimal(n \div 10) \o <<DigitChars[(n % 10) + 1]>>

RECURSIVE sheilds_locale(_)
\* locale.replace('-', '--')
sheilds_locale(locale) ==
    IF locale = <<>> THEN <<>>
    ELSE (IF Head(locale) = "-" THEN <<"-", "-">> ELSE <<Head(locale)>>)
         \o sheilds_locale(Tail(locale))

\* the f-string of badge_url
badge_url(locale, total, translated) ==
    BadgeAlt \o locale \o BadgeHost \o BadgeMarker \o sheilds_locale(locale)
    \o <<"-">> \o Decimal(translated) \o BadgeSlash \o Decimal(total) \o BadgeColour

badge_pattern(locale) == BadgeMarker \o sheilds_locale(locale)

\* pattern in text
Contains(text, pattern) ==
    \E i \in 1..(Len(text) - Len(pattern) + 1) :
        SubSeq(text, i, i + Len(pattern) - 1) = pattern

\* text.lower()
Lower(text) ==
    [i \in 1..Len(text) |->
        IF \E k \in 1..Len(UpperCase) : UpperCase[k] = text[i]
        THEN LowerCase[CHOOSE k \in 1..Len(UpperCase) : UpperCase[k] = text[i]]
        ELSE text[i]]

Blank(c) == c \in {" ", "\n", "\t", "\r"}
RECURSIVE StripLeft(_)
StripLeft(text) ==
    IF text # <<>> /\ Blank(Head(text)) THEN StripLeft(Tail(text)) ELSE text
RECURSIVE StripRight(_)
StripRight(text) ==
    IF text # <<>> /\ Blank(text[Len(text)])
    THEN StripRight(SubSeq(text, 1, Len(text) - 1)) ELSE text
\* text.strip()
Strip(text) == StripRight(StripLeft(text))

\* the lines written when the status document does not exist
DefaultLines ==
    <<TitleLine, BlankLine, RuleLine, BlankLine, HeadingLine, BlankLine, RuleLine>>

RECURSIVE FindSection(_, _, _)
\* the loop that finds start_idx and end_idx from line i on (0 stands for None):
\* every heading line moves start_idx until the first rule line after one ends it
FindSection(lines, i, start_idx) ==
    IF i > Len(lines) THEN [start_idx |-> start_idx, end_idx |-> 0]
    ELSE IF Contains(Lower(lines[i]), SectionHeading) THEN FindSection(lines, i + 1, i)
    ELSE IF start_idx # 0 /\ Strip(lines[i]) = RuleText
         THEN [start_idx |-> start_idx, end_idx |-> i]
    ELSE FindSection(lines, i + 1, start_idx)

\* the badge search: the first line of the section that contains the pattern, or 0
FirstMatch(lines, from, to, pattern) ==
    IF \E i \in from..to : Contains(lines[i], pattern)
    THEN CHOOSE i \in from..to :
            /\ Contains(lines[i], pattern)
            /\ \A j \in from..(i - 1) : ~Contains(lines[j], pattern)
    ELSE 0

\* the lines write_translation_progress writes, from the lines it read
UpdateLines(lines, locale, total, translated) ==
    LET sec == FindSection(lines, 1, 0)
        badge == badge_url(locale, total, translated) \o Newline
        last_idx == IF sec.end_idx # 0 THEN sec.end_idx - 1 ELSE Len(lines)
        hit == FirstMatch(lines, sec.start_idx + 1, last_idx, badge_pattern(locale))
    IN IF sec.start_idx = 0
       THEN lines \o <<BlankLine, HeadingLine, BlankLine, badge, BlankLine, RuleLine>>
       ELSE IF hit # 0 THEN [lines EXCEPT ![hit] = badge]
       ELSE IF sec.end_idx # 0
            THEN SubSeq(lines, 1, sec.end_idx - 1) \o <<badge>>
                 \o SubSeq(lines, sec.end_idx, Len(lines))
       ELSE lines \o <<badge, RuleLine>>

\* write_translation_progress(readme_file, total, translated, locale):
\* [readme, raised]; the file is written before the percentage is printed, and
\* the percentage divides by total
write_translation_progress(readme_file, total, translated, locale) ==
    [readme |-> [exists |-> TRUE,
                 lines |-> UpdateLines(IF readme_file.exists THEN readme_file.lines
                                       ELSE DefaultLines,
                                       locale, total, translated)],
     raised |-> (total = 0)]

\* ------------------------------------------------------------ generate command
\* args.locale as the text the badge writer formats
LocaleChars(locale) ==
    IF locale = "zh-CN" THEN <<"z", "h", "-", "C", "N">> ELSE <<"e", "n">>

\* main() around command_generate: [ret, mergeRet, store, dataDir, readme,
\* raised, total, translated].  merge says whether --raw-file and --trans-file
\* were both given; an exception that leaves command_generate makes main return 1
command_generate(merge, raw_file, trans_file, locale, author, target, dir, d, readme_file) ==
    LET m == IF merge
             THEN merge_translations(raw_file, trans_file, target, dir, locale, author)
             ELSE [ret |-> 0, store |-> target, dataDir |-> dir,
                   added |-> 0, updated |-> 0, total |-> 0]
        a == analyze_translation_progress(RawListing(d),
                                          OutputListing(m.dataDir, m.store, d), locale)
        w == write_translation_progress(readme_file, a.total, a.translated,
                                        LocaleChars(locale))
        base == [ret |-> 0, mergeRet |-> m.ret, store |-> m.store, dataDir |-> m.dataDir,
                 readme |-> readme_file, raised |-> FALSE, total |-> 0, translated |-> 0]
    IN IF m.ret # 0 THEN [base EXCEPT !.ret = m.ret]
       ELSE IF ~m.dataDir THEN base
       ELSE IF a.raised THEN [base EXCEPT !.ret = 1, !.raised = TRUE]
       ELSE [base EXCEPT !.ret = IF w.raised THEN 1 ELSE 0, !.raised = w.raised,
                         !.readme = w.readme,
                         !.total = a.total, !.translated = a.translated]

\* ------------------------------------------------------------ translate command
\* A file of the translated directory is [json, status]: whether its name ends
\* with ".json", and the HTTP status the provider answers its request with.

\* LLMTranslator.translate of the provider's class: [raised]; the Deepseek and
\* QWen classes raise ValueError on a status outside 2xx, the Claude class lets
\* the client's exception through
translate(provider, status) == [raised |-> ~(status >= 200 /\ status < 300)]

\* translate_file(translator, file, locale, limit): [raised, outcome]; a provider
\* error ends this file's translation and is reported, the caller carries on
translate_file(provider, file) ==
    [raised |-> FALSE,
     outcome |-> IF translate(provider, file.status).raised THEN "failed" ELSE "translated"]

RECURSIVE TranslateBatchStopAtFailure(_, _, _, _)
\* mutant of TranslateBatch: the loop ends at the first file that fails
TranslateBatchStopAtFailure(files, i, provider, acc) ==
    IF i > Len(files) THEN [raised |-> FALSE, outcomes |-> acc]
    ELSE IF ~files[i].json
         THEN TranslateBatchStopAtFailure(files, i + 1, provider, Append(acc, "ignored"))
    ELSE LET t == translate_file(provider, files[i])
         IN IF t.raised \/ t.outcome = "failed"
            THEN [raised |-> t.raised,
                  outcomes |-> Append(acc, "failed")
                               \o [k \in 1..(Len(files) - i) |-> "pending"]]
            ELSE TranslateBatchStopAtFailure(files, i + 1, provider, Append(acc, t.outcome))

RECURSIVE TranslateBatch(_, _, _, _)
\* the loop over Path(args.file).glob("*.json") from file i on: [raised,
\* outcomes]; an exception leaving translate_file leaves the loop, and the
\* files after it stay pending
TranslateBatch(files, i, provider, acc) ==
    IF i > Len(files) THEN [raised |-> FALSE, outcomes |-> acc]
    ELSE IF ~files[i].json
         THEN TranslateBatch(files, i + 1, provider, Append(acc, "ignored"))
    ELSE LET t == translate_file(provider, files[i])
         IN IF t.raised
            THEN [raised |-> TRUE,
                  outcomes |-> Append(acc, "failed")
                               \o [k \in 1..(Len(files) - i) |-> "pending"]]
            ELSE TranslateBatch(files, i + 1, provider, Append(acc, t.outcome))

\* main() around command_translate on a directory: [ret, outcomes]
command_translate(files, api_key, provider) ==
    IF ~api_key
    THEN [ret |-> 1, outcomes |-> [k \in 1..Len(files) |-> "pending"]]
    ELSE LET b == TranslateBatch(files, 1, provider, <<>>)
         IN [ret |-> IF b.raised THEN 1 ELSE 0, outcomes |-> b.outcomes]

\* ------------------------------------------------------------ input domains
HiraganaA == <<12354>>        \* "あ"
HiraganaI == <<12356>>        \* "い"
LatinWord == <<117, 65>>      \* "uA"
HiraganaU == <<12358>>        \* "う"
RawStrings == {HiraganaA, HiraganaI}
Texts == {"x", "y"}
Locales == {"zh-CN", "en"}
Authors == {"alice"}

\* sequences over S of length at most n
SeqsUpTo(S, n) == UNION {[1..k -> S] : k \in 0..n}

\* the code points string leaves are drawn from: backslash, u, F, A, space, "あ"
Alphabet == {Backslash, LowerU, 70, 65, 32, 12354}
Strings == SeqsUpTo(Alphabet, MaxLeafLen)

\* a string leaf in each place process_item can meet it
Contexts == {"top", "element", "value", "field"}
LeafDoc(s, c) ==
    IF c = "top" THEN StrNode(s)
    ELSE IF c = "element" THEN ListNode(<<StrNode(s)>>)
    ELSE IF c = "value" THEN DictNode(<<[k |-> "value", v |-> StrNode(s)]>>)
    ELSE DictNode(<<[k |-> "a", v |-> StrNode(s)]>>)

Keys == {"a", "value"}
KeySeqs ==
    {ks \in SeqsUpTo(Keys, MaxWidth) :
        \A i, j \in 1..Len(ks) : i # j => ks[i] # ks[j]}

RECURSIVE Docs(_)
\* the JSON values nested at most d deep
Docs(d) ==
    IF d = 0
    THEN {StrNode(HiraganaA), StrNode(HiraganaI), StrNode(LatinWord), NumNode}
    ELSE LET sub == Docs(d - 1)
         IN sub
            \cup {ListNode(items) : items \in SeqsUpTo(sub, MaxWidth)}
            \cup UNION {{DictNode([i \in 1..Len(ks) |-> [k |-> ks[i], v |-> vs[i]]]) :
                            vs \in [1..Len(ks) -> sub]} : ks \in KeySeqs}

\* the files the merger is pointed at
BadFiles == {[kind |-> "missing", recs |-> <<>>],
             [kind |-> "corrupt", recs |-> <<>>],
             [kind |-> "object", recs |-> <<>>]}
RawFiles == BadFiles \cup {ListFile(a) : a \in SeqsUpTo(RawStrings, MaxArrayLen)}
TransFiles == BadFiles \cup {ListFile(a) : a \in SeqsUpTo(Texts, MaxArrayLen)}

\* the input files gen is pointed at
GenDocs ==
    {ListNode([i \in 1..Len(a) |-> StrNode(a[i])]) :
        a \in SeqsUpTo(RawStrings \cup {LatinWord}, MaxArrayLen)}
    \cup {DictNode(<<[k |-> "a", v |-> StrNode(HiraganaA)],
                     [k |-> "value", v |-> StrNode(HiraganaI)]>>)}
GenInputs ==
    {[kind |-> k, doc |-> NumNode] : k \in {"missing", "directory", "malformed"}}
    \cup {[kind |-> "json", doc |-> d] : d \in GenDocs}

\* the store files a run can find on disk when it starts
InitStores ==
    {Absent, Corrupt, JsonObject,
     ListFile(<<Flat(HiraganaA)>>),
     ListFile(<<Bare(HiraganaI)>>),
     ListFile(<<Record(HiraganaA, <<Entry("en", "x", "bob")>>)>>)}

\* the files os.listdir finds in the raw directory
AnalyzeRawFiles ==
    {DirFile(TRUE, ListFile(<<Flat(HiraganaA), Flat(HiraganaI)>>)),
     DirFile(TRUE, ListFile(<<Record(HiraganaI, <<>>), Flat(HiraganaI)>>)),
     DirFile(TRUE, ListFile(<<>>)),
     DirFile(TRUE, Corrupt),
     DirFile(FALSE, Corrupt)}

\* the files os.listdir finds in the directory "data"
AnalyzeDataFiles ==
    {DirFile(TRUE, ListFile(<<Record(HiraganaA, <<Entry("zh-CN", "x", "bob")>>),
                              Record(HiraganaI, <<Entry("zh-CN", "", "bob")>>),
                              Record(HiraganaU, <<>>)>>)),
     DirFile(TRUE, ListFile(<<Record(HiraganaA, <<Entry("en", "x", "bob"),
                                                  Entry("zh-CN", "y", "bob")>>)>>)),
     DirFile(TRUE, ListFile(<<Flat(HiraganaU), Record(HiraganaI, <<Entry("en", "y", "bob")>>)>>)),
     DirFile(TRUE, ListFile(<<Bare(HiraganaA)>>)),
     DirFile(TRUE, JsonObject),
     DirFile(FALSE, ListFile(<<Record(HiraganaU, <<Entry("en", "x", "bob")>>)>>))}

\* the locale codes the badge writer is called with: a bare language code, its
\* regional variant, and an unrelated code
BadgeLocales == {<<"z", "h">>, <<"z", "h", "-", "C", "N">>, <<"e", "n">>}

\* the counts a badge is written with
Counts == {[translated |-> 1, total |-> 3], [translated |-> 2, total |-> 3]}

\* "## Translation Progress", as a hand-written document spells the heading
CapitalHeadingLine ==
    <<"#", "#", " ", "T", "r", "a", "n", "s", "l", "a", "t", "i", "o", "n", " ", "P", "r", "o", "g", "r", "e", "s", "s", "\n">>

\* the status documents a run can find
InitReadmes ==
    {[exists |-> FALSE, lines |-> <<>>],
     [exists |-> TRUE, lines |-> DefaultLines],
     [exists |-> TRUE, lines |-> <<TitleLine>>],
     [exists |-> TRUE, lines |-> <<TitleLine, CapitalHeadingLine, BlankLine>>],
     [exists |-> TRUE, lines |-> <<HeadingLine, BlankLine, RuleLine, TitleLine>>]}

\* the providers create_translator knows
Providers == {"claude", "deepseek", "qwen"}

\* the files of a translated directory
BatchFiles == {[json |-> j, status |-> c] : j \in BOOLEAN, c \in {200, 404, 500}}

NoTexts == [done |-> FALSE, all |-> <<>>, unique |-> <<>>]
NoOp == [op |-> "none", ret |-> 0, exit |-> 0,
         rawKind |-> "none", raw |-> <<>>, transKind |-> "none", trans |-> <<>>,
         locale |-> "", author |-> "",
         added |-> 0, updated |-> 0, total |-> 0,
         pre |-> Absent, preDir |-> FALSE, outOk |-> FALSE]

\* ------------------------------------------------------------ actions
\* the variables a specification does not use
NoDisk == [rawExists |-> FALSE, raw |-> <<>>, data |-> <<>>]
NoReadme == [exists |-> FALSE, lines |-> <<>>]
NoRun == [op |-> "none", locale |-> "", badge |-> <<>>, raised |-> FALSE,
          total |-> 0, translated |-> 0, ret |-> 0, calls |-> 0,
          requested |-> FALSE, mergeRet |-> 0,
          apiKey |-> FALSE, provider |-> "", files |-> <<>>, outcomes |-> <<>>]
InitOther == disk = NoDisk /\ readme = NoReadme /\ run = NoRun

\* A run of the tool is a sequence of commands on the same files.  last is the
\* record of the run's final command (final = TRUE); the commands before it
\* leave last at NoOp, and no command follows the final one.

\* generate.merge_translations(raw_file, trans_file, target_file, locale, author)
Merge ==
    /\ last.op = "none"
    /\ \E raw_file \in RawFiles, trans_file \in TransFiles,
          locale \in Locales, author \in Authors, final \in BOOLEAN :
        LET r == merge_translations(raw_file, trans_file, store, dataDir, locale, author)
        IN /\ store' = r.store
           /\ dataDir' = r.dataDir
           /\ last' = IF final
                      THEN [op |-> "merge", ret |-> r.ret, exit |-> r.ret,
                            rawKind |-> raw_file.kind, raw |-> raw_file.recs,
                            transKind |-> trans_file.kind, trans |-> trans_file.recs,
                            locale |-> locale, author |-> author,
                            added |-> r.added, updated |-> r.updated, total |-> r.total,
                            pre |-> store, preDir |-> dataDir, outOk |-> FALSE]
                      ELSE NoOp
           /\ UNCHANGED <<doc, texts, disk, readme, run>>

\* main.command_gentodo: gentodo.gen on the input file, then the exit code
Gentodo ==
    /\ last.op = "none"
    /\ \E input \in GenInputs, outDir \in BOOLEAN, final \in BOOLEAN :
        LET r == gen(input, outDir, dataDir, store)
        IN /\ store' = r.store
           /\ dataDir' = dataDir
           /\ last' = IF final
                      THEN [op |-> "gentodo", ret |-> r.ret, exit |-> command_gentodo(r.ret),
                            rawKind |-> input.kind, raw |-> r.unique,
                            transKind |-> "none", trans |-> <<>>,
                            locale |-> "", author |-> "",
                            added |-> 0, updated |-> 0, total |-> 0,
                            pre |-> store, preDir |-> dataDir, outOk |-> outDir]
                      ELSE NoOp
           /\ UNCHANGED <<doc, texts, disk, readme, run>>

\* gentodo.extract_japanese_texts(doc), then gen's de-duplication of the result
Extract ==
    /\ ~texts.done
    /\ texts' = [done |-> TRUE,
                 all |-> extract_japanese_texts(doc),
                 unique |-> unique_texts(extract_japanese_texts(doc))]
    /\ UNCHANGED <<doc, dataDir, store, last, disk, readme, run>>

\* analyze.analyze_translation_progress(RAW_DIR, OUTPUT_DIR, locale)
Analyze ==
    /\ run.op = "none"
    /\ \E locale \in Locales :
        LET r == analyze_translation_progress(RawListing(disk),
                                              OutputListing(dataDir, store, disk), locale)
        IN run' = [NoRun EXCEPT !.op = "analyze", !.locale = locale, !.raised = r.raised,
                                !.total = r.total, !.translated = r.translated]
    /\ UNCHANGED <<doc, texts, dataDir, store, last, disk, readme>>

\* analyze.write_translation_progress(README_FILE, total, translated, locale)
WriteProgress ==
    /\ run.calls < MaxWrites
    /\ \E locale \in BadgeLocales, c \in Counts :
        LET r == write_translation_progress(readme, c.total, c.translated, locale)
        IN /\ readme' = r.readme
           /\ run' = [NoRun EXCEPT !.op = "write", !.badge = locale, !.raised = r.raised,
                                   !.total = c.total, !.translated = c.translated,
                                   !.calls = run.calls + 1]
    /\ UNCHANGED <<doc, texts, dataDir, store, last, disk>>

\* main.command_generate under main's exception handler
Generate ==
    /\ run.op = "none"
    /\ \E merge \in BOOLEAN, raw_file \in RawFiles, trans_file \in TransFiles,
          locale \in Locales, author \in Authors :
        LET r == command_generate(merge, raw_file, trans_file, locale, author,
                                  store, dataDir, disk, readme)
        IN /\ ~merge => raw_file.kind = "missing" /\ trans_file.kind = "missing"
           /\ store' = r.store
           /\ dataDir' = r.dataDir
           /\ readme' = r.readme
           /\ run' = [NoRun EXCEPT !.op = "generate", !.locale = locale,
                                   !.badge = LocaleChars(locale),
                                   !.requested = merge, !.mergeRet = r.mergeRet,
                                   !.ret = r.ret, !.raised = r.raised,
                                   !.total = r.total, !.translated = r.translated]
    /\ UNCHANGED <<doc, texts, last, disk>>

\* main.command_translate on the directory run.files
Translate ==
    /\ run.op = "none"
    /\ LET r == command_translate(run.files, run.apiKey, run.provider)
       IN run' = [run EXCEPT !.op = "translate", !.ret = r.ret, !.outcomes = r.outcomes]
    /\ UNCHANGED <<doc, texts, dataDir, store, last, disk, readme>>

\* ------------------------------------------------------------ specifications
Init ==
    /\ doc = NumNode
    /\ texts = NoTexts
    /\ dataDir \in BOOLEAN
    /\ store \in InitStores
    /\ ~dataDir => store = Absent
    /\ last = NoOp
    /\ InitOther

Next == Merge \/ Gentodo

Spec == Init /\ [][Next]_vars

InitFiles == dataDir = FALSE /\ store = Absent /\ last = NoOp /\ InitOther

InitLeaf ==
    /\ \E s \in Strings, c \in Contexts : doc = LeafDoc(s, c)
    /\ texts = NoTexts
    /\ InitFiles

NextLeaf == Extract

SpecLeaf == InitLeaf /\ [][NextLeaf]_vars

InitExtract == doc \in Docs(MaxDepth) /\ texts = NoTexts /\ InitFiles

NextExtract == Extract

SpecExtract == InitExtract /\ [][NextExtract]_vars

\* the todo generator alone, on every store file it can find
NextGen == Gentodo

SpecGen == Init /\ [][NextGen]_vars

\* the analyzer alone, on every pair of directories
InitAnalyze ==
    /\ doc = NumNode
    /\ texts = NoTexts
    /\ dataDir \in BOOLEAN
    /\ store \in InitStores
    /\ ~dataDir => store = Absent
    /\ last = NoOp
    /\ \E rawExists \in BOOLEAN :
         \E raw \in SeqsUpTo(AnalyzeRawFiles, MaxFiles),
            data \in SeqsUpTo(AnalyzeDataFiles, MaxFiles) :
             /\ ~rawExists => raw = <<>>
             /\ ~dataDir => data = <<>>
             /\ disk = [rawExists |-> rawExists, raw |-> raw, data |-> data]
    /\ readme = NoReadme
    /\ run = NoRun

NextAnalyze == Analyze

SpecAnalyze == InitAnalyze /\ [][NextAnalyze]_vars

\* the badge writer alone, called again and again on one status document
InitReadme ==
    /\ doc = NumNode
    /\ texts = NoTexts
    /\ dataDir = FALSE /\ store = Absent /\ last = NoOp
    /\ disk = NoDisk
    /\ readme \in InitReadmes
    /\ run = NoRun

NextReadme == WriteProgress

SpecReadme == InitReadme /\ [][NextReadme]_vars

\* the generate command on every store, with at most one other raw file
InitGenerate ==
    /\ doc = NumNode
    /\ texts = NoTexts
    /\ dataDir \in BOOLEAN
    /\ store \in InitStores
    /\ ~dataDir => store = Absent
    /\ last = NoOp
    /\ \E rawExists \in BOOLEAN :
         \E raw \in {<<>>} \cup {<<f>> : f \in AnalyzeRawFiles} :
             /\ ~rawExists => raw = <<>>
             /\ disk = [rawExists |-> rawExists, raw |-> raw, data |-> <<>>]
    /\ readme \in {NoReadme, [exists |-> TRUE, lines |-> DefaultLines]}
    /\ run = NoRun

NextGenerate == Generate

SpecGenerate == InitGenerate /\ [][NextGenerate]_vars

\* the translate command on every directory of files
InitTranslate ==
    /\ doc = NumNode
    /\ texts = NoTexts
    /\ dataDir = FALSE /\ store = Absent /\ last = NoOp
    /\ disk = NoDisk
    /\ readme = NoReadme
    /\ \E files \in SeqsUpTo(BatchFiles, MaxFiles), key \in BOOLEAN, provider \in Providers :
         run = [NoRun EXCEPT !.files = files, !.apiKey = key, !.provider = provider]

NextTranslate == Translate

SpecTranslate == InitTranslate /\ [][NextTranslate]_vars

\* ------------------------------------------------------------ properties
\* helpers of the properties below
IsMerge == last.op = "merge"
MergeOk == IsMerge /\ last.ret = 0
LastRawFile == [kind |-> last.rawKind, recs |-> last.raw]
LastTransFile == [kind |-> last.transKind, recs |-> last.trans]
Occurs(x, xs) == \E i \in 1..Len(xs) : xs[i] = x
RawSeq(recs) == [i \in 1..Len(recs) |-> recs[i].raw]
HasRecord(recs, raw) ==
    \E i \in 1..Len(recs) : recs[i].kind # "flat" /\ recs[i].raw = raw
HasEntry(recs, raw) == \E i \in 1..Len(recs) : recs[i].raw = raw
\* the translation entries a dict holds under locale, as a set (empty or one entry)
Under(translation, locale) ==
    {translation[i] : i \in {j \in 1..Len(translation) : translation[j].locale = locale}}
\* the entries the store's records of raw hold under locale
StoreUnder(recs, raw, locale) ==
    UNION {Under(recs[i].translation, locale) :
              i \in {j \in 1..Len(recs) : recs[j].kind # "flat" /\ recs[j].raw = raw}}
\* xs without its repetitions, first occurrences kept
RECURSIVE FirstOccurrences(_)
FirstOccurrences(xs) ==
    IF xs = <<>> THEN <<>>
    ELSE LET rest == FirstOccurrences(SubSeq(xs, 1, Len(xs) - 1))
         IN IF Occurs(xs[Len(xs)], rest) THEN rest ELSE Append(rest, xs[Len(xs)])
\* C1: merging the same raw array, translation array, locale and author a second
\* time leaves the store exactly as the first merge left it.
C1_MergeIdempotent ==
    IsMerge =>
        LET again == merge_translations(LastRawFile, LastTransFile, store, dataDir,
                                        last.locale, last.author)
        IN again.store = store /\ again.dataDir = dataDir /\ again.ret = last.ret

\* a merge that both added a record and updated one in a store that held records
C1_Witness ==
    MergeOk /\ last.added > 0 /\ last.updated > 0 /\ last.pre.kind = "list"
            /\ last.pre.recs # <<>> /\ store # last.pre

\* C2: a merge for locale L leaves every entry of another locale as it was, and
\* every entry of the store whose raw string is not in the raw array untouched.
C2_MergeFrame ==
    (IsMerge /\ last.pre.kind = "list") =>
        /\ store.kind = "list"
        /\ Len(store.recs) >= Len(last.pre.recs)
        /\ \A i \in 1..Len(last.pre.recs) :
              LET old == last.pre.recs[i]
                  new == store.recs[i]
              IN /\ new.raw = old.raw
                 /\ \A l \in (Locales \ {last.locale}) :
                       Under(new.translation, l) = Under(old.translation, l)
                 /\ ~Occurs(old.raw, last.raw) => new = old

\* a merge that rewrote locale L of a record holding an entry of another locale,
\* next to a record the raw array does not name
C2_Witness ==
    /\ MergeOk /\ last.pre.kind = "list"
    /\ \E i \in 1..Len(last.pre.recs) :
          /\ Occurs(last.pre.recs[i].raw, last.raw)
          /\ \E l \in (Locales \ {last.locale}) :
                Under(last.pre.recs[i].translation, l) # {}
          /\ store.recs[i] # last.pre.recs[i]
    /\ \E i \in 1..Len(last.pre.recs) :
          /\ ~Occurs(last.pre.recs[i].raw, last.raw)
          /\ last.pre.recs[i].kind = "record"

\* C3: no two records of the store file have the same raw string, whatever
\* tracking updates and merges were applied to it.
C3_UniqueRaws ==
    \A i, j \in 1..Len(store.recs) :
        (i # j /\ store.recs[i].kind # "flat" /\ store.recs[j].kind # "flat")
            => store.recs[i].raw # store.recs[j].raw

\* a merge whose raw array repeats a string it had to add, into a store that held one
C3_Witness ==
    /\ MergeOk /\ last.added > 0 /\ last.pre.kind = "list" /\ last.pre.recs # <<>>
    /\ \E i, j \in 1..Len(last.raw) :
          i # j /\ last.raw[i] = last.raw[j] /\ ~HasRecord(last.pre.recs, last.raw[i])

\* C4: after a tracking update or a successful merge on an absent store or a
\* JSON array, the raw strings the store held are a prefix of those it holds,
\* followed by the new ones in the order the input array first names them.
C4_AppendOnly ==
    LET old == last.pre.recs
        NewToMerge(x) == ~HasRecord(old, x)
        NewToGen(x) == ~HasEntry(old, x)
    IN /\ (MergeOk /\ last.pre.kind \in {"absent", "list"}) =>
              RawSeq(store.recs) =
                  RawSeq(old) \o FirstOccurrences(SelectSeq(last.raw, NewToMerge))
       /\ (last.op = "gentodo" /\ last.ret = 0 /\ last.preDir
              /\ last.pre.kind \in {"absent", "list"}) =>
              RawSeq(store.recs) =
                  RawSeq(old) \o FirstOccurrences(SelectSeq(last.raw, NewToGen))

\* a tracking update that appended to a store holding entries, one string known
C4_Witness ==
    /\ last.op = "gentodo" /\ last.ret = 0 /\ last.preDir
    /\ last.pre.kind = "list" /\ last.pre.recs # <<>>
    /\ Len(store.recs) > Len(last.pre.recs)
    /\ \E i \in 1..Len(last.raw) : HasEntry(last.pre.recs, last.raw[i])

\* the translation the merge pairs with index i of the raw array
Paired(i) == IF i <= Len(last.trans) THEN last.trans[i] ELSE ""
Mismatch ==
    /\ IsMerge /\ last.rawKind = "list" /\ last.transKind = "list"
    /\ Len(last.raw) > Len(last.trans)
IsLastOccurrence(i) == \A j \in (i + 1)..Len(last.raw) : last.raw[j] # last.raw[i]

\* C5 as claimed: when the raw array is longer than the translation array the
\* merge returns 0 and every raw string holds, for the locale, the translation
\* at its own index, the empty string at or past the translation array's length.
C5_OwnIndex ==
    Mismatch =>
        /\ last.ret = 0
        /\ \A i \in 1..Len(last.raw) :
              StoreUnder(store.recs, last.raw[i], last.locale)
                  = {Entry(last.locale, Paired(i), last.author)}

\* C5 as amended: when the raw array is longer than the translation array the
\* merge returns 0, every raw string at an index at or past the translation
\* array's length holds the empty string for the locale, and every raw string
\* holds the translation paired with the last index it occurs at.
C5_LastIndex ==
    Mismatch =>
        /\ last.ret = 0
        /\ \A i \in 1..Len(last.raw) :
              /\ i > Len(last.trans) =>
                    StoreUnder(store.recs, last.raw[i], last.locale)
                        = {Entry(last.locale, "", last.author)}
              /\ IsLastOccurrence(i) =>
                    StoreUnder(store.recs, last.raw[i], last.locale)
                        = {Entry(last.locale, Paired(i), last.author)}

\* a merge of two different raw strings with one translation, over a record
\* that held another text for the locale
C5_Witness ==
    /\ Mismatch /\ Len(last.trans) = 1 /\ Len(last.raw) = 2
    /\ last.raw[1] # last.raw[2]
    /\ last.pre.kind = "list"
    /\ \E e \in StoreUnder(last.pre.recs, last.raw[2], last.locale) : e.text # ""
    /\ StoreUnder(store.recs, last.raw[2], last.locale)
           = {Entry(last.locale, "", last.author)}

\* the positions of the raw array whose string had no record when they were processed
AddedPositions ==
    {i \in 1..Len(last.raw) :
        /\ ~HasRecord(LoadTarget(last.pre), last.raw[i])
        /\ \A j \in 1..(i - 1) : last.raw[j] # last.raw[i]}

\* C6: a merge reports as added the positions whose raw string had no record
\* when they were processed, as updated the other positions, and as total the
\* entries loaded plus those added; with as many translations as distinct raw
\* strings every record's text for the locale is the translation given.
C6_Counts ==
    MergeOk =>
        /\ last.added = Cardinality(AddedPositions)
        /\ last.updated = Len(last.raw) - last.added
        /\ last.total = Len(LoadTarget(last.pre)) + last.added
        /\ last.total = Len(store.recs)
        /\ (Len(last.trans) = Len(last.raw) /\ \A i \in 1..Len(last.raw) : IsLastOccurrence(i))
              => \A i \in 1..Len(last.raw) :
                    StoreUnder(store.recs, last.raw[i], last.locale)
                        = {Entry(last.locale, last.trans[i], last.author)}

\* a re-run over two records with a changed translation: 0 added, 2 updated
C6_Witness ==
    /\ MergeOk /\ Len(last.raw) = 2 /\ Len(last.trans) = 2
    /\ last.added = 0 /\ last.updated = 2 /\ last.total = 2
    /\ \E e \in StoreUnder(last.pre.recs, last.raw[1], last.locale) :
          e.text # "" /\ e.text # last.trans[1]
    /\ \E e \in StoreUnder(last.pre.recs, last.raw[2], last.locale) :
          e.text = last.trans[2]

\* C7: a merge whose raw or translation file is missing, malformed or no JSON
\* array returns 1 and neither creates nor modifies the target store file.
C7_PreconditionFailure ==
    (IsMerge /\ (last.rawKind # "list" \/ last.transKind # "list")) =>
        /\ last.ret = 1
        /\ store = last.pre
        /\ dataDir = last.preDir

\* a merge of a usable raw array with a malformed translation file, no store yet
C7_Witness ==
    /\ IsMerge /\ last.rawKind = "list" /\ last.raw # <<>>
    /\ last.transKind = "corrupt"
    /\ last.ret = 1 /\ store = Absent /\ ~dataDir

\* C10: command_gentodo returns 1 whenever gen reports a failure, and 0 only
\* when gen succeeded.
C10_ExitCode ==
    last.op = "gentodo" =>
        /\ last.ret # 0 => last.exit = 1
        /\ last.exit = 0 => last.ret = 0

\* the one string leaf of a document of SpecLeaf
TheLeaf == IF doc.t = "str" THEN doc.s ELSE doc.kids[1].v.s
Selected == texts.all # <<>>
\* the four ranges of the claim: U+3040-U+309F, U+30A0-U+30FF, U+4E00-U+9FAF, U+FF00-U+FFEF
InClaimedRanges(c) ==
    \/ c >= 12352 /\ c <= 12447
    \/ c >= 12448 /\ c <= 12543
    \/ c >= 19968 /\ c <= 40879
    \/ c >= 65280 /\ c <= 65519
ContainsJapanese(s) == \E i \in 1..Len(s) : InClaimedRanges(s[i])
\* ASCII letters and ASCII punctuation
LatinOrPunctuation(c) ==
    \/ c >= 65 /\ c <= 90
    \/ c >= 97 /\ c <= 122
    \/ c >= 33 /\ c <= 47
    \/ c >= 58 /\ c <= 64
    \/ c >= 91 /\ c <= 96
    \/ c >= 123 /\ c <= 126
LatinOnly(s) == \A i \in 1..Len(s) : LatinOrPunctuation(s[i])
AllSpaces(s) == \A i \in 1..Len(s) : s[i] = 32
\* the value of a hexadecimal digit written with a letter A-F or a-f, else -1
LetterDigit(c) ==
    IF c >= 65 /\ c <= 70 THEN c - 55
    ELSE IF c >= 97 /\ c <= 102 THEN c - 87
    ELSE -1
\* s holds, at position i, a backslash, a u and four letter digits that name a
\* code point of the four ranges
EscapedJapaneseAt(s, i) ==
    /\ i + 5 <= Len(s)
    /\ s[i] = 92 /\ s[i + 1] = 117
    /\ \A j \in 2..5 : LetterDigit(s[i + j]) >= 0
    /\ InClaimedRanges(4096 * LetterDigit(s[i + 2]) + 256 * LetterDigit(s[i + 3])
                          + 16 * LetterDigit(s[i + 4]) + LetterDigit(s[i + 5]))
EscapesJapanese(s) == \E i \in 1..Len(s) : EscapedJapaneseAt(s, i)

\* C8 as claimed: a string leaf of Latin letters and punctuation alone is never
\* selected, and a non-blank leaf holding a code point of the four ranges is.
C8_ByScript ==
    texts.done =>
        /\ LatinOnly(TheLeaf) => ~Selected
        /\ (~AllSpaces(TheLeaf) /\ ContainsJapanese(TheLeaf)) => Selected

\* C8 as amended: a string leaf of Latin letters and punctuation alone is never
\* selected unless it spells a \uXXXX escape of a code point of the four
\* ranges, in which case it is selected; a non-blank leaf holding a code point
\* of the four ranges is selected.
C8_ByDecodedScript ==
    texts.done =>
        /\ (LatinOnly(TheLeaf) /\ ~EscapesJapanese(TheLeaf)) => ~Selected
        /\ (LatinOnly(TheLeaf) /\ EscapesJapanese(TheLeaf)) => Selected
        /\ (~AllSpaces(TheLeaf) /\ ContainsJapanese(TheLeaf)) => Selected

\* an extraction over a Latin-only leaf that spells an escape of a code point
\* outside the four ranges, found in a mapping's value field and not selected
C8_Witness ==
    /\ texts.done /\ doc.t = "dict" /\ doc.kids[1].k = "value"
    /\ TheLeaf = <<92, 117, 65, 65, 65, 65>>
    /\ ~Selected

\* the qualifying string leaves of a value, in document order
RECURSIVE LeavesInOrder(_)
RECURSIVE LeavesOfKids(_, _)
LeavesInOrder(item) ==
    IF item.t = "str"
    THEN IF ~AllSpaces(item.s) /\ ContainsJapanese(item.s) THEN <<item.s>> ELSE <<>>
    ELSE LeavesOfKids(item.kids, 1)
LeavesOfKids(kids, i) ==
    IF i > Len(kids) THEN <<>>
    ELSE LeavesInOrder(kids[i].v) \o LeavesOfKids(kids, i + 1)

\* C9: the extractor returns one element per qualifying string leaf, in
\* document order, and gen's de-duplicated list holds each qualifying string
\* once, in the order of first occurrence in the document.
C9_DocumentOrder ==
    texts.done =>
        /\ texts.all = LeavesInOrder(doc)
        /\ texts.unique = FirstOccurrences(LeavesInOrder(doc))

\* a gen that succeeded with the tracking directory in place
GenTracked == last.op = "gentodo" /\ last.ret = 0 /\ last.preDir
\* one record {raw: s, translation: {}} for each string of xs not held by recs
FreshRecords(xs, recs) ==
    LET Unknown(x) == ~HasEntry(recs, x)
        new == SelectSeq(xs, Unknown)
    IN [i \in 1..Len(new) |-> [kind |-> "record", raw |-> new[i], translation |-> <<>>]]

\* C14: after gen on an absent or JSON-array tracking file the file holds the
\* old entries unchanged, then one empty record for each de-duplicated
\* extracted string that no entry (record or legacy flat string) held, in
\* extraction order; a second gen on the same input adds nothing.
C14_Reconcile ==
    (GenTracked /\ last.pre.kind \in {"absent", "list"}) =>
        /\ store.recs = last.pre.recs \o FreshRecords(last.raw, last.pre.recs)
        /\ store.kind = IF store.recs = <<>> THEN last.pre.kind ELSE "list"
        /\ _update_output_dir_file(store, last.raw) = store

\* a gen that found a legacy flat string it extracted again and added another
C14_Witness ==
    /\ GenTracked /\ last.pre.kind = "list"
    /\ \E i \in 1..Len(last.pre.recs) :
          last.pre.recs[i].kind = "flat" /\ Occurs(last.pre.recs[i].raw, last.raw)
    /\ Len(store.recs) = Len(last.pre.recs) + 1
    /\ Len(last.raw) = 2

\* C15: when gen reads its input, writes the raw list and finds the tracking
\* file malformed, it discards that file, writes one empty record for every
\* de-duplicated extracted string and returns 0.
C15_CorruptRecovered ==
    (last.op = "gentodo" /\ last.rawKind = "json" /\ last.outOk /\ last.preDir
         /\ last.pre.kind = "corrupt") =>
        /\ last.ret = 0
        /\ store = [kind |-> "list", recs |-> FreshRecords(last.raw, <<>>)]

\* a gen of two strings over a malformed tracking file
C15_Witness ==
    /\ GenTracked /\ last.pre.kind = "corrupt"
    /\ Len(last.raw) = 2 /\ store.kind = "list" /\ Len(store.recs) = 2

\* ---- C11
\* the .json files of a directory listing
JsonFiles(files) == SelectSeq(files, LAMBDA f : f.json)
AllJsonFiles == JsonFiles(disk.raw) \o JsonFiles(OutputListing(dataDir, store, disk).files)
DataJsonFiles == JsonFiles(OutputListing(dataDir, store, disk).files)
\* the entries of the data files that carry a non-empty text for the locale
TranslatedSlots(files, locale) ==
    {p \in UNION {{<<f, i>> : i \in 1..Len(files[f].recs)} : f \in 1..Len(files)} :
        \E k \in 1..Len(files[p[1]].recs[p[2]].translation) :
              /\ files[p[1]].recs[p[2]].translation[k].locale = locale
              /\ files[p[1]].recs[p[2]].translation[k].text # ""}
\* every .json file is an array, and every object of a data file has a translation
WellFormedDirs ==
    /\ disk.rawExists /\ dataDir
    /\ \A i \in 1..Len(AllJsonFiles) : AllJsonFiles[i].kind = "list"
    /\ \A i \in 1..Len(DataJsonFiles) :
          \A j \in 1..Len(DataJsonFiles[i].recs) : DataJsonFiles[i].recs[j].kind # "bare"

SectionLines(lines) ==
    LET sec == FindSection(lines, 1, 0)
    IN IF sec.start_idx = 0 THEN <<>>
       ELSE SubSeq(lines, sec.start_idx + 1,
                   IF sec.end_idx # 0 THEN sec.end_idx - 1 ELSE Len(lines))
\* a badge line of the locale: it opens with the locale's alternative text
BadgeOf(line, locale) ==
    LET head == BadgeAlt \o locale \o BadgeHost
    IN Len(line) >= Len(head) /\ SubSeq(line, 1, Len(head)) = head
BadgesOf(lines, locale) == SelectSeq(SectionLines(lines), LAMBDA line : BadgeOf(line, locale))

\* C12: a call for locale L leaves exactly one badge line of L in the section,
\* carrying the given counts, and leaves the badge lines of every other locale
\* as they were
C12_BadgeFrame ==
    [][WriteProgress =>
          /\ BadgesOf(readme'.lines, run'.badge)
                = <<badge_url(run'.badge, run'.total, run'.translated) \o Newline>>
          /\ \A other \in BadgeLocales \ {run'.badge} :
                BadgesOf(readme'.lines, other) = BadgesOf(readme.lines, other)]_vars

\* ---- C13
\* C13: a failed merge is the command's exit code and leaves the status document
\* alone; after a successful merge, or without one, on existing well-formed
\* directories the status document gets the locale's badge and the command
\* returns 0, whatever the total
C13_MergeThenRefresh ==
    [][Generate =>
          /\ run'.mergeRet # 0 => run'.ret = run'.mergeRet /\ readme' = readme
          /\ (run'.mergeRet = 0 /\ WellFormedDirs') =>
                /\ run'.ret = 0
                /\ BadgesOf(readme'.lines, run'.badge)
                      = <<badge_url(run'.badge, run'.total, run'.translated) \o Newline>>]_vars

\* ---- C16
\* the provider answers the file's request with an error
ProviderError(file) == file.status < 200 \/ file.status >= 300

====
